---- MODULE Spec2Model ----
(***************************************************************************)
(* Genre store service (server/index.js): the in-memory collection         *)
(* `genres`, the counter `nextId` and the request handlers of the          *)
(* /api/genres routes.  Strings are sequences of one-character strings so  *)
(* that trim(), toLowerCase() and parseInt() are computed, not assumed.    *)
(***************************************************************************)
EXTENDS Integers, Sequences, FiniteSets, TLC

\* genres  the collection `genres`, in insertion order
\* nextId  the counter `nextId`
\* now     the last reading the server took of the wall clock (new Date())
\* resp    the request being answered and its response; "none" once the
\*         response has been sent
\* before  the collection as it was when the request in resp arrived
\* issued  the ids handed out by getNextId, in order (history)
\* writes  the number of requests that changed the collection (history)
\* removed the ids removed by a DELETE /api/genres/:id (history)
\* clients the create requests of concurrent clients and their answers
\* ui      the state of the front-end (App.vue)
VARIABLES genres, nextId, now, resp, before, issued, writes, removed, clients, ui

vars == <<genres, nextId, now, resp, before, issued, writes, removed, clients, ui>>

(***************************************************************************)
(* Bounds of the exploration.                                              *)
(***************************************************************************)
\* largest value of nextId at which a create is still explored
MaxId == 6
\* largest clock reading (milliseconds since the server started)
MaxTime == 1
\* number of successful mutating requests explored in one behaviour
MaxWrites == 2
\* number of fetchGenres calls the front-end issues when its calls overlap
MaxFetches == 3

(***************************************************************************)
(* JavaScript values.                                                      *)
(***************************************************************************)
\* the value `undefined` of a body field, a path parameter or a property
Undef == <<"undefined">>
\* a property holding no timestamp (the seed records carry no updatedAt)
NoTime == 0 - 1
\* the result NaN of parseInt; NaN === x is false for every x
NaN == 0 - 1
\* a query parameter that is not sent
Absent == ""

UpperChars == <<"A", "B", "C", "D", "E", "F", "G", "H", "I", "J", "K", "L", "M", "N", "O", "P", "Q", "R", "S", "T", "U", "V", "W", "X", "Y", "Z">>
LowerChars == <<"a", "b", "c", "d", "e", "f", "g", "h", "i", "j", "k", "l", "m", "n", "o", "p", "q", "r", "s", "t", "u", "v", "w", "x", "y", "z">>
DigitChars == <<"0", "1", "2", "3", "4", "5", "6", "7", "8", "9">>

IsWs(c) == c = " "

\* the lower-case letter of every upper-case letter
LowerTable ==
  [c \in {UpperChars[i] : i \in 1..Len(UpperChars)} |->
     LowerChars[CHOOSE i \in 1..Len(UpperChars) : UpperChars[i] = c]]

LowerChar(c) == IF c \in DOMAIN LowerTable THEN LowerTable[c] ELSE c

\* String.prototype.toLowerCase
ToLowerCase(s) == [i \in 1..Len(s) |-> LowerChar(s[i])]

RECURSIVE TrimStart(_)
TrimStart(s) ==
  IF s = <<>> THEN <<>>
  ELSE IF IsWs(Head(s)) THEN TrimStart(Tail(s)) ELSE s

RECURSIVE TrimEnd(_)
TrimEnd(s) ==
  IF s = <<>> THEN <<>>
  ELSE IF IsWs(s[Len(s)]) THEN TrimEnd(SubSeq(s, 1, Len(s) - 1)) ELSE s

\* String.prototype.trim
Trim(s) == TrimEnd(TrimStart(s))

\* s.replace(/\s+/g, '')
RECURSIVE RemoveWs(_)
RemoveWs(s) ==
  IF s = <<>> THEN <<>>
  ELSE IF IsWs(Head(s)) THEN RemoveWs(Tail(s))
  ELSE <<Head(s)>> \o RemoveWs(Tail(s))

IsDigit(c) == \E i \in 1..Len(DigitChars) : DigitChars[i] = c
DigitVal(c) == (CHOOSE i \in 1..Len(DigitChars) : DigitChars[i] = c) - 1

RECURSIVE ParseDigits(_, _)
ParseDigits(s, acc) ==
  IF s = <<>> \/ ~IsDigit(Head(s)) THEN acc
  ELSE ParseDigits(Tail(s), acc * 10 + DigitVal(Head(s)))

\* parseInt(raw): leading white space skipped, the leading digits read,
\* NaN when there is none
ParseInt(raw) ==
  LET s == TrimStart(raw)
  IN IF s = <<>> \/ ~IsDigit(Head(s)) THEN NaN ELSE ParseDigits(s, 0)

\* truthiness of a string-or-undefined value: undefined and '' are falsy
Truthy(v) == v # Undef /\ v # <<>>

(***************************************************************************)
(* The seed collection and the id counter.                                 *)
(***************************************************************************)
Genre(id, name, description, image, createdAt, updatedAt) ==
  [id |-> id, name |-> name, description |-> description, image |-> image,
   createdAt |-> createdAt, updatedAt |-> updatedAt]

SeedGenres ==
  << Genre(1, <<"A", "c", "t", "i", "o", "n">>,
           <<"F", "a", "s", "t", "-", "p", "a", "c", "e", "d", ",", " ", "s", "t", "u", "n", "t", "-", "h", "e", "a", "v", "y", " ", "f", "i", "l", "m", "s">>,
           <<"/", "i", "m", "a", "g", "e", "s", "/", "a", "c", "t", "i", "o", "n", ".", "j", "p", "g">>,
           0, NoTime),
     Genre(2, <<"C", "o", "m", "e", "d", "y">>,
           <<"F", "u", "n", "n", "y", " ", "f", "i", "l", "m", "s", " ", "t", "o", " ", "m", "a", "k", "e", " ", "y", "o", "u", " ", "l", "a", "u", "g", "h">>,
           <<"/", "i", "m", "a", "g", "e", "s", "/", "c", "o", "m", "e", "d", "y", ".", "j", "p", "g">>,
           0, NoTime),
     Genre(3, <<"D", "r", "a", "m", "a">>,
           <<"E", "m", "o", "t", "i", "o", "n", "-", "d", "r", "i", "v", "e", "n", " ", "s", "t", "o", "r", "y", "t", "e", "l", "l", "i", "n", "g">>,
           <<"/", "i", "m", "a", "g", "e", "s", "/", "d", "r", "a", "m", "a", ".", "j", "p", "g">>,
           0, NoTime),
     Genre(4, <<"S", "c", "i", "-", "F", "i">>,
           <<"F", "u", "t", "u", "r", "i", "s", "t", "i", "c", " ", "c", "o", "n", "c", "e", "p", "t", "s", " ", "a", "n", "d", " ", "t", "e", "c", "h">>,
           <<"/", "i", "m", "a", "g", "e", "s", "/", "s", "c", "i", "f", "i", ".", "j", "p", "g">>,
           0, NoTime) >>

FirstNextId == 5

SeedIds == {SeedGenres[i].id : i \in 1..Len(SeedGenres)}

\* the record standing for "no genre" in a response without data
NoGenre == Genre(0, Undef, Undef, Undef, NoTime, NoTime)

(***************************************************************************)
(* Request inputs.                                                         *)
(***************************************************************************)
\* the name field of the body of a POST: absent, too short, valid with
\* white space around it, valid, the name of a seed genre in lower case
NameInputs ==
  { Undef,
    <<"x">>,
    <<" ", "a", "b">>,
    <<"c", "d">>,
    <<"a", "c", "t", "i", "o", "n">> }

DescriptionInputs ==
  { Undef,
    <<" ", "a", "b", "c", "d", " ">>,
    <<"a", "b", "c", "d", "e", " ">> }

\* the image field of the body of a PUT: absent or a path
ImageInputs == { Undef, <<"/", "i">> }

\* the image field of the body of a POST: absent, the default path is built
CreateImageInputs == { Undef }

\* the name field of the body of a PUT
ReplaceNameInputs ==
  { <<"x">>,
    <<" ", "a", "b">>,
    <<"a", "c", "t", "i", "o", "n">> }

\* bodies of a PATCH: any subset of the three fields, the name absent, only
\* white space, too short, or the name of a seed genre in lower case
PatchNameInputs ==
  { Undef,
    <<" ", " ">>,
    <<"x">>,
    <<"a", "c", "t", "i", "o", "n">> }

PatchImageInputs == { Undef }

\* path parameters :id and elements of the body's ids array, as sent
RawIds == { <<"1">>, <<"2">>, <<"x">> }

\* bodies of the bulk delete: a hit, a hit and a miss, a repeated id,
\* only misses, a created id before a seed id, and the empty array
IdLists ==
  { <<>>,
    << <<"1">> >>,
    << <<"2">>, <<"x">> >>,
    << <<"2">>, <<"2">> >>,
    << <<"x">>, <<"7">> >>,
    << <<"5">>, <<"1">> >> }

\* query parameters of the list: no search, a text found in one seed name
\* only, a text in upper case found in a name and in a description
SearchInputs ==
  { Undef,
    <<"c", "o", "m", "e", "d", "y">>,
    <<"C", "O">> }

\* no sort, a field every record has as a string or as a number, a field the
\* seed records lack
SortInputs == { Absent, "name", "id", "updatedAt" }

OrderInputs == { Absent, "asc", "desc" }

\* values of the body's ids that are no array: ids missing (no elements),
\* and the string "1" (its length is 1, its one character "1")
NonArrayIds == { <<>>, << <<"1">> >> }

(***************************************************************************)
(* Helpers of the handlers.                                                *)
(***************************************************************************)
\* genres.findIndex(g => g.id === n); 0 stands for -1
FindIndex(gs, n) ==
  IF \E i \in 1..Len(gs) : gs[i].id = n
    THEN CHOOSE i \in 1..Len(gs) :
           gs[i].id = n /\ \A j \in 1..(i - 1) : gs[j].id # n
    ELSE 0

\* a splice that removes nothing
SpliceNothing(gs, i) == gs

\* genres.splice(i, 1)
Splice(gs, i) == SubSeq(gs, 1, i - 1) \o SubSeq(gs, i + 1, Len(gs))

NameError == "Name must be at least 2 characters long"
DescriptionError == "Description must be at least 5 characters long"

MinNameLen == 2
MinDescriptionLen == 5

\* validation that stops at the first violated rule
validateGenreFirstOnly(name, description) ==
  IF ~Truthy(name) \/ Len(Trim(name)) < MinNameLen
    THEN <<NameError>>
  ELSE IF ~Truthy(description) \/ Len(Trim(description)) < MinDescriptionLen
    THEN <<DescriptionError>>
  ELSE <<>>

validateGenre(name, description) ==
  (IF ~Truthy(name) \/ Len(Trim(name)) < MinNameLen
     THEN <<NameError>> ELSE <<>>)
  \o
  (IF ~Truthy(description) \/ Len(Trim(description)) < MinDescriptionLen
     THEN <<DescriptionError>> ELSE <<>>)

\* name lookup that sees no genre, as if it ran before any other request
NameTakenUnseen(gs, n, self) == FALSE

\* name lookup that compares the names as written
NameTakenExact(gs, n, self) ==
  \E i \in 1..Len(gs) : gs[i].id # self /\ gs[i].name = n

\* name lookup that does not exclude the genre being updated
NameTakenAnyone(gs, n, self) ==
  \E i \in 1..Len(gs) : ToLowerCase(gs[i].name) = ToLowerCase(n)

\* genres.find(g => g.id !== self && g.name.toLowerCase() === n.toLowerCase()),
\* self = NaN when no genre is excluded (POST)
NameTaken(gs, n, self) ==
  \E i \in 1..Len(gs) :
    gs[i].id # self /\ ToLowerCase(gs[i].name) = ToLowerCase(n)

ImagePrefix == <<"/", "i", "m", "a", "g", "e", "s", "/">>
ImageSuffix == <<".", "j", "p", "g">>
DefaultImage(name) == ImagePrefix \o RemoveWs(ToLowerCase(name)) \o ImageSuffix

\* nextId++ leaves the counter unchanged: an id is handed out twice
getNextIdStuck(n) == [value |-> n, next |-> n]

\* getNextId = () => nextId++ : the value returned and the counter afterwards
getNextId(n) == [value |-> n, next |-> n + 1]

\* what a GET response records of the response it directly follows
NoAfter ==
  [op |-> "none", id |-> Undef, name |-> Undef, description |-> Undef,
   image |-> Undef, status |-> 0, at |-> 0]

\* the request handled and its answer; `at` is the clock reading the handler
\* stamped on the record (the last reading taken when it stamps nothing)
Response(op, id, name, description, image, ids, status, errors, data, deleted, notFound, at) ==
  [op |-> op, id |-> id, name |-> name, description |-> description,
   image |-> image, ids |-> ids, status |-> status, errors |-> errors,
   data |-> data, deleted |-> deleted, notFound |-> notFound, at |-> at,
   isArray |-> TRUE, search |-> Undef, sort |-> Absent, order |-> Absent,
   result |-> <<>>, after |-> NoAfter]

\* no request is being answered
NoResponse ==
  [op |-> "none", id |-> Undef, name |-> Undef, description |-> Undef,
   image |-> Undef, ids |-> <<>>, status |-> 0, errors |-> <<>>,
   data |-> NoGenre, deleted |-> <<>>, notFound |-> <<>>, at |-> 0,
   isArray |-> TRUE, search |-> Undef, sort |-> Absent, order |-> Absent,
   result |-> <<>>, after |-> NoAfter]

Idle == resp.op = "none"

\* the response in resp is that of a request that changed the collection
Wrote == resp.op \in {"create", "replace", "patch", "delete", "bulkDelete"}
         /\ resp.status \in {200, 201}

\* the clients that send concurrent requests
Clients == {"c1", "c2", "c3"}

\* a client that has sent nothing yet
Quiet == [state |-> "quiet", name |-> Undef, status |-> 0, id |-> 0]

\* no API call of the front-end is under way
NoCall ==
  [call |-> "none", search |-> Undef, sort |-> Absent, order |-> Absent,
   id |-> 0, ids |-> <<>>]

\* the refs of the front-end before it is mounted; selectedGenres is the Set
\* in insertion order; awaiting is the API call whose answer the front-end
\* is waiting for; fetches holds the fetchGenres calls that overlap, each
\* with its number in the order of the calls, and fetchCount the number of
\* the last one
Unmounted ==
  [mounted |-> FALSE, genres |-> <<>>, loading |-> TRUE, selectedGenres |-> <<>>,
   searchQuery |-> <<>>, sortField |-> "name", sortOrder |-> "asc",
   awaiting |-> NoCall, fetches |-> {}, fetchCount |-> 0]

Init ==
  /\ genres = SeedGenres
  /\ nextId = FirstNextId
  /\ now = 0
  /\ resp = NoResponse
  /\ before = SeedGenres
  /\ issued = <<>>
  /\ writes = 0
  /\ removed = {}
  /\ clients = [c \in Clients |-> Quiet]
  /\ ui = Unmounted

\* new Date(): a reading of the wall clock, e milliseconds after the last
\* reading the server took (now)
ClockReading(e) == now + e

\* the milliseconds that can pass between two readings
Elapsed == 0..1

\* the response has been sent: the handler has returned
Respond ==
  /\ ~Idle
  /\ resp' = NoResponse
  /\ before' = genres
  /\ UNCHANGED <<genres, nextId, now, issued, writes, removed, clients, ui>>

\* a rejected request that has drawn an id from the counter
RejectBurnsId(op, id, name, description, image, ids, status, errors) ==
  /\ resp' = Response(op, id, name, description, image, ids, status, errors,
                      NoGenre, <<>>, <<>>, now)
  /\ before' = genres
  /\ nextId' = getNextId(nextId).next
  /\ UNCHANGED <<genres, now, issued, writes, removed, clients, ui>>

\* a request that answers with an error status and changes nothing
Reject(op, id, name, description, image, ids, status, errors) ==
  /\ resp' = Response(op, id, name, description, image, ids, status, errors,
                      NoGenre, <<>>, <<>>, now)
  /\ before' = genres
  /\ UNCHANGED <<genres, nextId, now, issued, writes, removed, clients, ui>>

findGenreById(id) ==
  LET i == FindIndex(genres, ParseInt(id))
  IN IF i = 0 THEN NoGenre ELSE genres[i]

\* GET /api/genres/:id, sent when the server is idle or as the next request
\* after one that changed the collection (recorded in `after`)
GetGenre(id) ==
  LET genre == findGenreById(id)
      r == IF genre = NoGenre
             THEN Response("get", id, Undef, Undef, Undef, <<>>, 404, <<>>, NoGenre, <<>>, <<>>, now)
             ELSE Response("get", id, Undef, Undef, Undef, <<>>, 200, <<>>, genre, <<>>, <<>>, now)
  IN /\ Idle \/ Wrote
     /\ resp' = [r EXCEPT !.after =
                   [op |-> resp.op, id |-> resp.id, name |-> resp.name,
                    description |-> resp.description, image |-> resp.image,
                    status |-> resp.status, at |-> resp.at]]
     /\ before' = IF Idle THEN genres ELSE before
     /\ UNCHANGED <<genres, nextId, now, issued, writes, removed, clients, ui>>

\* POST /api/genres; e is the time since the last clock reading, d the
\* time that passes between the two readings of the handler
CreateGenre(name, description, image, e, d) ==
  LET errors == validateGenre(name, description)
  IN Idle /\
     IF errors # <<>>
       THEN e = 0 /\ d = 0 /\ Reject("create", Undef, name, description, image, <<>>, 400, errors)
     ELSE IF NameTaken(genres, Trim(name), NaN)
       THEN e = 0 /\ d = 0 /\ Reject("create", Undef, name, description, image, <<>>, 409, <<>>)
     ELSE
       LET fresh == getNextId(nextId)
           createdAt == ClockReading(e)
           updatedAt == createdAt + d
           newGenre == Genre(fresh.value, Trim(name), Trim(description),
                             IF Truthy(image) THEN image ELSE DefaultImage(name),
                             createdAt, updatedAt)
       IN /\ nextId < MaxId + 1
          /\ writes < MaxWrites
          /\ updatedAt <= MaxTime
          /\ nextId' = fresh.next
          /\ genres' = Append(genres, newGenre)
          /\ now' = updatedAt
          /\ resp' = Response("create", Undef, name, description, image, <<>>,
                              201, <<>>, newGenre, <<>>, <<>>, updatedAt)
          /\ before' = genres
          /\ issued' = Append(issued, newGenre.id)
          /\ writes' = writes + 1
          /\ UNCHANGED <<removed, clients, ui>>

\* replace that stores the name as sent, untrimmed
ReplacedGenreUntrimmed(old, name, description, image, t) ==
  Genre(old.id, name, Trim(description),
        IF Truthy(image) THEN image ELSE old.image, old.createdAt, t)

\* the updatedGenre object of the PUT handler
ReplacedGenre(old, name, description, image, t) ==
  Genre(old.id, Trim(name), Trim(description),
        IF Truthy(image) THEN image ELSE old.image, old.createdAt, t)

\* PUT /api/genres/:id
ReplaceGenre(id, name, description, image, e) ==
  LET genreIndex == FindIndex(genres, ParseInt(id))
      errors == validateGenre(name, description)
  IN Idle /\
     IF genreIndex = 0
       THEN e = 0 /\ Reject("replace", id, name, description, image, <<>>, 404, <<>>)
     ELSE IF errors # <<>>
       THEN e = 0 /\ Reject("replace", id, name, description, image, <<>>, 400, errors)
     ELSE IF NameTaken(genres, Trim(name), ParseInt(id))
       THEN e = 0 /\ Reject("replace", id, name, description, image, <<>>, 409, <<>>)
     ELSE
       LET old == genres[genreIndex]
           updatedGenre == ReplacedGenre(old, name, description, image, ClockReading(e))
       IN /\ writes < MaxWrites
          /\ ClockReading(e) <= MaxTime
          /\ genres' = [genres EXCEPT ![genreIndex] = updatedGenre]
          /\ now' = ClockReading(e)
          /\ resp' = Response("replace", id, name, description, image, <<>>,
                              200, <<>>, updatedGenre, <<>>, <<>>, ClockReading(e))
          /\ before' = genres
          /\ writes' = writes + 1
          /\ UNCHANGED <<nextId, issued, removed, clients, ui>>

\* the `updates` object of the PATCH handler: a field of the body that is
\* not undefined is taken, name and description trimmed
PatchUpdates(name, description, image) ==
  [name |-> IF name # Undef THEN Trim(name) ELSE Undef,
   description |-> IF description # Undef THEN Trim(description) ELSE Undef,
   image |-> image]

\* merge that stamps createdAt as well
ApplyUpdatesRestamp(old, updates, t) ==
  Genre(old.id,
        IF updates.name # Undef THEN updates.name ELSE old.name,
        IF updates.description # Undef THEN updates.description ELSE old.description,
        IF updates.image # Undef THEN updates.image ELSE old.image,
        t, t)

\* { ...genre, ...updates, updatedAt }
ApplyUpdates(old, updates, t) ==
  Genre(old.id,
        IF updates.name # Undef THEN updates.name ELSE old.name,
        IF updates.description # Undef THEN updates.description ELSE old.description,
        IF updates.image # Undef THEN updates.image ELSE old.image,
        old.createdAt, t)

\* the record the PATCH handler validates
PatchTestGenre(old, updates) ==
  [name |-> IF Truthy(updates.name) THEN updates.name ELSE old.name,
   description |-> IF Truthy(updates.description) THEN updates.description
                   ELSE old.description]

\* PATCH /api/genres/:id
PatchGenre(id, name, description, image, e) ==
  LET genreIndex == FindIndex(genres, ParseInt(id))
      updates == PatchUpdates(name, description, image)
  IN Idle /\
     IF genreIndex = 0
       THEN e = 0 /\ Reject("patch", id, name, description, image, <<>>, 404, <<>>)
     ELSE
       LET old == genres[genreIndex]
           testGenre == PatchTestGenre(old, updates)
           errors == IF Truthy(updates.name) \/ Truthy(updates.description)
                       THEN validateGenre(testGenre.name, testGenre.description)
                       ELSE <<>>
           updatedGenre == ApplyUpdates(old, updates, ClockReading(e))
       IN IF errors # <<>>
            THEN e = 0 /\ Reject("patch", id, name, description, image, <<>>, 400, errors)
          ELSE IF Truthy(updates.name) /\ NameTaken(genres, updates.name, ParseInt(id))
            THEN e = 0 /\ Reject("patch", id, name, description, image, <<>>, 409, <<>>)
          ELSE
            /\ writes < MaxWrites
            /\ ClockReading(e) <= MaxTime
            /\ genres' = [genres EXCEPT ![genreIndex] = updatedGenre]
            /\ now' = ClockReading(e)
            /\ resp' = Response("patch", id, name, description, image, <<>>,
                                200, <<>>, updatedGenre, <<>>, <<>>, ClockReading(e))
            /\ before' = genres
            /\ writes' = writes + 1
            /\ UNCHANGED <<nextId, issued, removed, clients, ui>>

\* DELETE /api/genres/:id
DeleteGenre(id) ==
  LET genreIndex == FindIndex(genres, ParseInt(id))
  IN Idle /\
     IF genreIndex = 0
       THEN Reject("delete", id, Undef, Undef, Undef, <<>>, 404, <<>>)
     ELSE
       /\ writes < MaxWrites
       /\ genres' = Splice(genres, genreIndex)
       /\ resp' = Response("delete", id, Undef, Undef, Undef, <<>>, 200, <<>>,
                           genres[genreIndex], <<>>, <<>>, now)
       /\ before' = genres
       /\ writes' = writes + 1
       /\ removed' = removed \cup {genres[genreIndex].id}
       /\ UNCHANGED <<nextId, now, issued, clients, ui>>

\* bulk delete loop that forgets the ids it does not find
RECURSIVE BulkLoopDropsMisses(_, _, _, _)
BulkLoopDropsMisses(ids, gs, deletedGenres, notFoundIds) ==
  IF ids = <<>>
    THEN [genres |-> gs, deleted |-> deletedGenres, notFound |-> notFoundIds]
  ELSE
    LET genreIndex == FindIndex(gs, ParseInt(Head(ids)))
    IN IF genreIndex # 0
         THEN BulkLoopDropsMisses(Tail(ids), Splice(gs, genreIndex),
                                  Append(deletedGenres, gs[genreIndex]), notFoundIds)
         ELSE BulkLoopDropsMisses(Tail(ids), gs, deletedGenres, notFoundIds)

\* the ids.forEach loop of the bulk delete: the collection, the deleted
\* genres and the ids not found after the ids have been processed in order
RECURSIVE BulkLoop(_, _, _, _)
BulkLoop(ids, gs, deletedGenres, notFoundIds) ==
  IF ids = <<>>
    THEN [genres |-> gs, deleted |-> deletedGenres, notFound |-> notFoundIds]
  ELSE
    LET genreIndex == FindIndex(gs, ParseInt(Head(ids)))
    IN IF genreIndex # 0
         THEN BulkLoop(Tail(ids), Splice(gs, genreIndex),
                       Append(deletedGenres, gs[genreIndex]), notFoundIds)
         ELSE BulkLoop(Tail(ids), gs, deletedGenres, Append(notFoundIds, Head(ids)))

\* a body is refused when its ids is anything but an array
InvalidIdsNoArray(isArray, ids) == ~isArray

\* !Array.isArray(ids) || ids.length === 0
InvalidIds(isArray, ids) == ~isArray \/ Len(ids) = 0

\* DELETE /api/genres with body {ids}; isArray tells whether ids is an array,
\* ids holds its elements
BulkDelete(isArray, ids) ==
  Idle /\
  IF InvalidIds(isArray, ids)
    THEN /\ resp' = [Response("bulkDelete", Undef, Undef, Undef, Undef, ids, 400,
                               <<>>, NoGenre, <<>>, <<>>, now)
                       EXCEPT !.isArray = isArray]
         /\ before' = genres
         /\ UNCHANGED <<genres, nextId, now, issued, writes, removed, clients, ui>>
  ELSE
    LET r == BulkLoop(ids, genres, <<>>, <<>>)
    IN /\ r.deleted # <<>> => writes < MaxWrites
       /\ genres' = r.genres
       /\ resp' = Response("bulkDelete", Undef, Undef, Undef, Undef, ids, 200,
                           <<>>, NoGenre, r.deleted, r.notFound, now)
       /\ before' = genres
       /\ writes' = IF r.deleted # <<>> THEN writes + 1 ELSE writes
       /\ UNCHANGED <<nextId, now, issued, removed, clients, ui>>

(***************************************************************************)
(* GET /api/genres: search, sort and order.                                *)
(***************************************************************************)
\* String.prototype.includes
Includes(s, sub) ==
  \E i \in 0..(Len(s) - Len(sub)) : SubSeq(s, i + 1, i + Len(sub)) = sub

\* the filter compares the texts as written
MatchesSearchExact(g, search) ==
  Includes(g.name, search) \/ Includes(g.description, search)

\* the predicate of result.filter: searchLower is search.toLowerCase()
MatchesSearch(g, search) ==
  LET searchLower == ToLowerCase(search)
  IN \/ Includes(ToLowerCase(g.name), searchLower)
     \/ Includes(ToLowerCase(g.description), searchLower)

\* if (search) result = result.filter(...)
Filtered(gs, search) ==
  IF Truthy(search) THEN SelectSeq(gs, LAMBDA g : MatchesSearch(g, search)) ELSE gs

\* the characters of the model in the order of their UTF-16 code units
CodeOrder ==
  <<" ", ",", "-", ".", "/">> \o DigitChars \o UpperChars \o LowerChars

CodeTable ==
  [c \in {CodeOrder[i] : i \in 1..Len(CodeOrder)} |->
     CHOOSE i \in 1..Len(CodeOrder) : CodeOrder[i] = c]

\* a > b on two strings: the first differing code unit decides, a proper
\* prefix is smaller
RECURSIVE StringGreater(_, _)
StringGreater(a, b) ==
  IF a = <<>> THEN FALSE
  ELSE IF b = <<>> THEN TRUE
  ELSE IF CodeTable[Head(a)] # CodeTable[Head(b)] THEN CodeTable[Head(a)] > CodeTable[Head(b)]
  ELSE StringGreater(Tail(a), Tail(b))

\* toISOString() of a clock reading: the timestamps of one run differ in
\* their milliseconds only, the rest of the text is the same
ToISOString(t) == <<"T", DigitChars[t + 1]>>

Undefined == [type |-> "undefined", str |-> <<>>, num |-> 0]
StringValue(s) == [type |-> "string", str |-> s, num |-> 0]
NumberValue(n) == [type |-> "number", str |-> <<>>, num |-> n]

\* a[sort]: the property of a genre named by the sort parameter
Property(g, sort) ==
  CASE sort = "id" -> NumberValue(g.id)
    [] sort = "name" -> StringValue(g.name)
    [] sort = "description" -> StringValue(g.description)
    [] sort = "image" -> StringValue(g.image)
    [] sort = "createdAt" -> StringValue(ToISOString(g.createdAt))
    [] sort = "updatedAt" ->
         IF g.updatedAt = NoTime THEN Undefined
         ELSE StringValue(ToISOString(g.updatedAt))
    [] OTHER -> Undefined

\* x > y: two strings by code units, two numbers by value; undefined
\* converts to NaN, which is greater than nothing and smaller than nothing
Greater(x, y) ==
  IF x.type = "string" /\ y.type = "string" THEN StringGreater(x.str, y.str)
  ELSE IF x.type = "number" /\ y.type = "number" THEN x.num > y.num
  ELSE FALSE

\* the comparator throws a TypeError at bVal.toLowerCase() when aVal is a
\* string and bVal is not
ComparatorThrows(a, b, sort) ==
  Property(a, sort).type = "string" /\ Property(b, sort).type # "string"

LowerCased(v) == IF v.type = "string" THEN StringValue(ToLowerCase(v.str)) ELSE v

\* comparator that compares the strings as written
ComparatorExact(a, b, sort, order) ==
  LET aVal == Property(a, sort)
      bVal == Property(b, sort)
  IN IF order = "desc"
       THEN (IF Greater(bVal, aVal) THEN 1 ELSE 0 - 1)
       ELSE (IF Greater(aVal, bVal) THEN 1 ELSE 0 - 1)

\* the comparator of result.sort, where it does not throw
Comparator(a, b, sort, order) ==
  LET aVal == IF Property(a, sort).type = "string"
                THEN LowerCased(Property(a, sort)) ELSE Property(a, sort)
      bVal == IF Property(a, sort).type = "string"
                THEN LowerCased(Property(b, sort)) ELSE Property(b, sort)
  IN IF order = "desc"
       THEN (IF Greater(bVal, aVal) THEN 1 ELSE 0 - 1)
       ELSE (IF Greater(aVal, bVal) THEN 1 ELSE 0 - 1)

Reverse(arr) == [i \in 1..Len(arr) |-> arr[Len(arr) - i + 1]]

\* Array.prototype.sort as the engine of Node (V8) runs it on an array
\* shorter than 64 elements: it finds the run the array starts with,
\* ascending or strictly descending, reverses a descending run, and inserts
\* the other elements one by one by binary search.  Every call of the
\* comparator has the later element as a and the earlier one as b.
\*
\* RunEnd: the last index of the run that starts at index 1 and whether a
\* comparison threw; first is the comparison of arr[2] with arr[1]
RECURSIVE RunEnd(_, _, _, _, _)
RunEnd(arr, idx, first, sort, order) ==
  IF idx > Len(arr) THEN [end |-> Len(arr), threw |-> FALSE]
  ELSE IF ComparatorThrows(arr[idx], arr[idx - 1], sort)
    THEN [end |-> idx - 1, threw |-> TRUE]
  ELSE IF (Comparator(arr[idx], arr[idx - 1], sort, order) < 0) = (first < 0)
    THEN RunEnd(arr, idx + 1, first, sort, order)
  ELSE [end |-> idx - 1, threw |-> FALSE]

\* the binary search of the place of pivot among the sorted elements
\* (left and right count from 0 as in the engine)
RECURSIVE InsertionPoint(_, _, _, _, _, _)
InsertionPoint(arr, pivot, left, right, sort, order) ==
  IF left >= right THEN [pos |-> left, threw |-> FALSE]
  ELSE
    LET mid == left + ((right - left) \div 2)
    IN IF ComparatorThrows(pivot, arr[mid + 1], sort)
         THEN [pos |-> left, threw |-> TRUE]
       ELSE IF Comparator(pivot, arr[mid + 1], sort, order) < 0
         THEN InsertionPoint(arr, pivot, left, mid, sort, order)
       ELSE InsertionPoint(arr, pivot, mid + 1, right, sort, order)

\* the insertion of the elements after the run; start counts the elements
\* already sorted
RECURSIVE BinaryInsertionSort(_, _, _, _)
BinaryInsertionSort(arr, start, sort, order) ==
  IF start >= Len(arr) THEN [arr |-> arr, threw |-> FALSE]
  ELSE
    LET pivot == arr[start + 1]
        p == InsertionPoint(arr, pivot, 0, start, sort, order)
    IN IF p.threw THEN [arr |-> arr, threw |-> TRUE]
       ELSE BinaryInsertionSort(
              SubSeq(arr, 1, p.pos) \o <<pivot>> \o SubSeq(arr, p.pos + 1, start)
                \o SubSeq(arr, start + 2, Len(arr)),
              start + 1, sort, order)

\* result.sort(comparator): the sorted array, or threw when a call of the
\* comparator threw
ArraySort(arr, sort, order) ==
  IF Len(arr) < 2 THEN [arr |-> arr, threw |-> FALSE]
  ELSE IF ComparatorThrows(arr[2], arr[1], sort) THEN [arr |-> arr, threw |-> TRUE]
  ELSE
    LET first == Comparator(arr[2], arr[1], sort, order)
        run == RunEnd(arr, 3, first, sort, order)
        made == IF first < 0
                  THEN Reverse(SubSeq(arr, 1, run.end)) \o SubSeq(arr, run.end + 1, Len(arr))
                  ELSE arr
    IN IF run.threw THEN [arr |-> arr, threw |-> TRUE]
       ELSE BinaryInsertionSort(made, run.end, sort, order)

\* the body of the try block: filter, then sort
ListResult(gs, search, sort, order) ==
  IF sort # Absent THEN ArraySort(Filtered(gs, search), sort, order)
  ELSE [arr |-> Filtered(gs, search), threw |-> FALSE]

\* the response of the list: 200 with the result, 500 from the catch block
ListResponse(search, sort, order) ==
  LET r == ListResult(genres, search, sort, order)
  IN [Response("list", Undef, Undef, Undef, Undef, <<>>,
               IF r.threw THEN 500 ELSE 200, <<>>, NoGenre, <<>>, <<>>, now)
       EXCEPT !.search = search, !.sort = sort, !.order = order,
              !.result = IF r.threw THEN <<>> ELSE r.arr]

\* a list that filters and sorts the collection itself
ListGenresInPlace(search, sort, order) ==
  /\ Idle
  /\ resp' = ListResponse(search, sort, order)
  /\ before' = genres
  /\ genres' = IF resp'.status = 200 THEN resp'.result ELSE genres
  /\ UNCHANGED <<nextId, now, issued, writes, removed, clients, ui>>

\* GET /api/genres?search=&sort=&order= ; result is a copy ([...genres])
ListGenres(search, sort, order) ==
  /\ Idle
  /\ resp' = ListResponse(search, sort, order)
  /\ before' = genres
  /\ UNCHANGED <<genres, nextId, now, issued, writes, removed, clients, ui>>

Next ==
  \/ Respond
  \/ \E id \in RawIds : GetGenre(id)
  \/ \E name \in NameInputs, description \in DescriptionInputs, image \in CreateImageInputs,
        e \in Elapsed, d \in Elapsed :
       CreateGenre(name, description, image, e, d)
  \/ \E id \in RawIds, name \in ReplaceNameInputs, description \in DescriptionInputs,
        image \in ImageInputs, e \in Elapsed :
       ReplaceGenre(id, name, description, image, e)
  \/ \E id \in RawIds, name \in PatchNameInputs, description \in DescriptionInputs,
        image \in PatchImageInputs, e \in Elapsed :
       PatchGenre(id, name, description, image, e)
  \/ \E id \in RawIds : DeleteGenre(id)
  \/ \E ids \in IdLists : BulkDelete(TRUE, ids)
  \/ \E ids \in NonArrayIds : BulkDelete(FALSE, ids)

Spec == Init /\ [][Next]_vars

(***************************************************************************)
(* Concurrent clients.  Node runs the handlers on one thread and no       *)
(* handler awaits anything: the requests that have arrived wait in the     *)
(* event loop and are handled one at a time, each to its end, in any order.*)
(***************************************************************************)
\* names of the concurrent creates: two that differ in case and white space
\* only, another name, the name of a seed genre
ConcurrentNames ==
  { <<" ", "a", "b">>,
    <<"A", "B">>,
    <<"c", "d">>,
    <<"a", "c", "t", "i", "o", "n">> }

ConcurrentDescription == <<"a", "b", "c", "d", "e", " ">>

\* the POST of client c arrives at the server and waits for its turn
Send(c, name) ==
  /\ clients[c].state = "quiet"
  /\ clients' = [clients EXCEPT ![c] = [state |-> "sent", name |-> name, status |-> 0, id |-> 0]]
  /\ UNCHANGED <<genres, nextId, now, resp, before, issued, writes, removed, ui>>

\* the event loop runs the handler on one of the waiting requests
Handle(c, e, d) ==
  /\ clients[c].state = "sent"
  /\ CreateGenre(clients[c].name, ConcurrentDescription, Undef, e, d)

\* the response reaches the client whose request has been handled
Answer(c) ==
  /\ resp.op = "create"
  /\ clients[c].state = "sent"
  /\ clients[c].name = resp.name
  /\ clients' = [clients EXCEPT ![c] = [state |-> "answered", name |-> resp.name,
                                         status |-> resp.status, id |-> resp.data.id]]
  /\ resp' = NoResponse
  /\ before' = genres
  /\ UNCHANGED <<genres, nextId, now, issued, writes, removed, ui>>

NextConcurrent ==
  \/ \E c \in Clients, name \in ConcurrentNames : Send(c, name)
  \/ \E c \in Clients, e \in Elapsed, d \in Elapsed : Handle(c, e, d)
  \/ \E c \in Clients : Answer(c)

SpecConcurrent == Init /\ [][NextConcurrent]_vars

(***************************************************************************)
(* The front-end (App.vue) in front of the service: the user acts, the     *)
(* front-end calls the API, the server handles the call, the front-end     *)
(* takes the answer.  One call is under way at a time.                     *)
(***************************************************************************)
\* the sample data shown when the fetch fails (records without timestamps)
fallback ==
  << Genre(1, <<"A", "c", "t", "i", "o", "n">>,
           <<"F", "a", "s", "t", "-", "p", "a", "c", "e", "d", ",", " ", "s", "t", "u", "n", "t", "-", "h", "e", "a", "v", "y", " ", "f", "i", "l", "m", "s">>,
           <<"/", "i", "m", "a", "g", "e", "s", "/", "a", "c", "t", "i", "o", "n", ".", "j", "p", "g">>,
           NoTime, NoTime),
     Genre(2, <<"C", "o", "m", "e", "d", "y">>,
           <<"L", "i", "g", "h", "t", "-", "h", "e", "a", "r", "t", "e", "d", " ", "a", "n", "d", " ", "f", "u", "n", "n", "y">>,
           <<"/", "i", "m", "a", "g", "e", "s", "/", "c", "o", "m", "e", "d", "y", ".", "j", "p", "g">>,
           NoTime, NoTime),
     Genre(3, <<"D", "r", "a", "m", "a">>,
           <<"E", "m", "o", "t", "i", "o", "n", "-", "d", "r", "i", "v", "e", "n", " ", "s", "t", "o", "r", "y", "t", "e", "l", "l", "i", "n", "g">>,
           <<"/", "i", "m", "a", "g", "e", "s", "/", "d", "r", "a", "m", "a", ".", "j", "p", "g">>,
           NoTime, NoTime),
     Genre(4, <<"S", "c", "i", "-", "F", "i">>,
           <<"F", "u", "t", "u", "r", "i", "s", "t", "i", "c", " ", "c", "o", "n", "c", "e", "p", "t", "s", " ", "a", "n", "d", " ", "t", "e", "c", "h">>,
           <<"/", "i", "m", "a", "g", "e", "s", "/", "s", "c", "i", "f", "i", ".", "j", "p", "g">>,
           NoTime, NoTime) >>

\* texts the user types in the search box
SearchTexts == { <<>>, <<"c", "o", "m", "e", "d", "y">> }

\* the options of the sort select
SortFields == { "name", "createdAt" }

\* a number as it appears in a path or in a JSON body read by parseInt
NumberToString(n) == <<DigitChars[n + 1]>>

\* the values of a sequence
Range(q) == {q[i] : i \in 1..Len(q)}

\* the computed filteredGenres
filteredGenres ==
  IF ~Truthy(ui.searchQuery) THEN ui.genres
  ELSE SelectSeq(ui.genres, LAMBDA g : MatchesSearch(g, ui.searchQuery))

\* the computed isAllSelected
isAllSelected ==
  /\ Len(filteredGenres) > 0
  /\ \A i \in 1..Len(filteredGenres) : filteredGenres[i].id \in Range(ui.selectedGenres)

\* selectedGenres.add(id), selectedGenres.delete(id)
SetAdd(q, id) == IF id \in Range(q) THEN q ELSE Append(q, id)
SetDelete(q, id) == SelectSeq(q, LAMBDA x : x # id)

\* filteredGenres.forEach(g => selectedGenres.add(g.id))
RECURSIVE AddAll(_, _)
AddAll(q, gs) == IF gs = <<>> THEN q ELSE AddAll(SetAdd(q, Head(gs).id), Tail(gs))

serverVars == <<genres, nextId, now, resp, before, issued, writes, removed, clients>>

\* the parameters fetchGenres sends, read from the refs u
FetchCall(u) ==
  [NoCall EXCEPT !.call = "fetch",
                 !.search = IF Truthy(u.searchQuery) THEN u.searchQuery ELSE Undef,
                 !.sort = u.sortField, !.order = u.sortOrder]

Ready == ui.mounted /\ ui.awaiting = NoCall

\* onMounted(() => fetchGenres())
Mount ==
  /\ ~ui.mounted
  /\ ui' = [ui EXCEPT !.mounted = TRUE, !.loading = TRUE, !.awaiting = FetchCall(ui)]
  /\ UNCHANGED serverVars

\* the user changes the text of the search box: v-model, then fetchGenres
TypeSearch(text) ==
  /\ Ready
  /\ text # ui.searchQuery
  /\ ui' = [ui EXCEPT !.searchQuery = text, !.loading = TRUE,
                       !.awaiting = FetchCall([ui EXCEPT !.searchQuery = text])]
  /\ UNCHANGED serverVars

\* the user picks another option of the sort select: v-model, then fetchGenres
SelectSortField(field) ==
  /\ Ready
  /\ field # ui.sortField
  /\ ui' = [ui EXCEPT !.sortField = field, !.loading = TRUE,
                       !.awaiting = FetchCall([ui EXCEPT !.sortField = field])]
  /\ UNCHANGED serverVars

\* toggleSort(field); the button calls it with the current sortField
toggleSort(field) ==
  LET u == IF ui.sortField = field
             THEN [ui EXCEPT !.sortOrder = IF ui.sortOrder = "asc" THEN "desc" ELSE "asc"]
             ELSE [ui EXCEPT !.sortField = field, !.sortOrder = "asc"]
  IN /\ Ready
     /\ ui' = [u EXCEPT !.loading = TRUE, !.awaiting = FetchCall(u)]
     /\ UNCHANGED serverVars

\* toggleGenreSelection(genreId), on the checkbox of a displayed genre
toggleGenreSelection(genreId) ==
  /\ Ready
  /\ \E i \in 1..Len(filteredGenres) : filteredGenres[i].id = genreId
  /\ ui' = [ui EXCEPT !.selectedGenres =
               IF genreId \in Range(ui.selectedGenres)
                 THEN SetDelete(ui.selectedGenres, genreId)
                 ELSE SetAdd(ui.selectedGenres, genreId)]
  /\ UNCHANGED serverVars

\* toggleAllSelection(); the checkbox is shown when a genre is displayed
toggleAllSelection ==
  /\ Ready
  /\ Len(filteredGenres) > 0
  /\ ui' = [ui EXCEPT !.selectedGenres =
               IF isAllSelected THEN <<>> ELSE AddAll(ui.selectedGenres, filteredGenres)]
  /\ UNCHANGED serverVars

\* deleteGenre(genreId) confirmed by the user: the DELETE is sent
deleteGenre(genreId) ==
  /\ Ready
  /\ \E i \in 1..Len(filteredGenres) : filteredGenres[i].id = genreId
  /\ ui' = [ui EXCEPT !.awaiting = [NoCall EXCEPT !.call = "delete", !.id = genreId]]
  /\ UNCHANGED serverVars

\* bulkDelete() confirmed by the user: ids = Array.from(selectedGenres)
bulkDelete ==
  /\ Ready
  /\ Len(ui.selectedGenres) # 0
  /\ ui' = [ui EXCEPT !.awaiting = [NoCall EXCEPT !.call = "bulkDelete",
                                                    !.ids = ui.selectedGenres]]
  /\ UNCHANGED serverVars

\* the server handles the call under way
ServeFetch ==
  /\ ui.awaiting.call = "fetch"
  /\ ListGenres(ui.awaiting.search, ui.awaiting.sort, ui.awaiting.order)

ServeDelete ==
  /\ ui.awaiting.call = "delete"
  /\ DeleteGenre(NumberToString(ui.awaiting.id))

ServeBulkDelete ==
  /\ ui.awaiting.call = "bulkDelete"
  /\ BulkDelete(TRUE, [i \in 1..Len(ui.awaiting.ids) |-> NumberToString(ui.awaiting.ids[i])])

\* fetchGenres after its await: the list (each image is set, so the map
\* keeps it), or the sample data when the answer is not ok
FetchDone ==
  /\ resp.op = "list"
  /\ ui' = [ui EXCEPT !.genres = IF resp.status = 200 THEN resp.result ELSE fallback,
                       !.loading = FALSE,
                       !.awaiting = NoCall]
  /\ resp' = NoResponse
  /\ before' = genres
  /\ UNCHANGED <<genres, nextId, now, issued, writes, removed, clients>>

\* deleteGenre after its await: the genre leaves the list and the selection
\* when the answer is ok, a message is shown otherwise
DeleteDone ==
  /\ resp.op = "delete"
  /\ ui' = IF resp.status = 200
             THEN [ui EXCEPT !.genres = SelectSeq(ui.genres, LAMBDA g : g.id # ui.awaiting.id),
                             !.selectedGenres = SetDelete(ui.selectedGenres, ui.awaiting.id),
                             !.awaiting = NoCall]
             ELSE [ui EXCEPT !.awaiting = NoCall]
  /\ resp' = NoResponse
  /\ before' = genres
  /\ UNCHANGED <<genres, nextId, now, issued, writes, removed, clients>>

\* bulkDelete after its await
BulkDeleteDone ==
  /\ resp.op = "bulkDelete"
  /\ ui' = IF resp.status = 200
             THEN [ui EXCEPT !.genres = SelectSeq(ui.genres,
                                           LAMBDA g : g.id \notin Range(ui.selectedGenres)),
                             !.selectedGenres = <<>>,
                             !.awaiting = NoCall]
             ELSE [ui EXCEPT !.awaiting = NoCall]
  /\ resp' = NoResponse
  /\ before' = genres
  /\ UNCHANGED <<genres, nextId, now, issued, writes, removed, clients>>

\* the call under way fails before the server handles it (server not
\* reachable): the catch block of the caller
CallFailed ==
  /\ ui.awaiting # NoCall
  /\ Idle
  /\ ui' = IF ui.awaiting.call = "fetch"
             THEN [ui EXCEPT !.genres = fallback, !.loading = FALSE, !.awaiting = NoCall]
             ELSE [ui EXCEPT !.awaiting = NoCall]
  /\ UNCHANGED serverVars

NextClient ==
  \/ Mount
  \/ \E text \in SearchTexts : TypeSearch(text)
  \/ \E field \in SortFields : SelectSortField(field)
  \/ toggleSort(ui.sortField)
  \/ \E genreId \in SeedIds : toggleGenreSelection(genreId)
  \/ toggleAllSelection
  \/ \E genreId \in SeedIds : deleteGenre(genreId)
  \/ bulkDelete
  \/ ServeFetch
  \/ ServeDelete
  \/ ServeBulkDelete
  \/ FetchDone
  \/ DeleteDone
  \/ BulkDeleteDone
  \/ CallFailed

SpecClient == Init /\ [][NextClient]_vars

(***************************************************************************)
(* Overlapping fetches.  fetchGenres is started by every change of the     *)
(* search text or of the sort, whether or not an earlier call has          *)
(* returned; each call continues after its await when its own response     *)
(* arrives, and the responses of calls on different connections arrive in  *)
(* any order.                                                              *)
(***************************************************************************)
\* the refs u after fetchGenres has run up to its await: loading is set and
\* the call is under way with the parameters read from u
StartFetch(u) ==
  [u EXCEPT !.loading = TRUE,
            !.fetchCount = u.fetchCount + 1,
            !.fetches = u.fetches \cup
               { [n |-> u.fetchCount + 1, search |-> FetchCall(u).search,
                  sort |-> FetchCall(u).sort, order |-> FetchCall(u).order,
                  state |-> "sent", status |-> 0, result |-> <<>>] }]

\* onMounted(() => fetchGenres())
MountFetch ==
  /\ ~ui.mounted
  /\ ui' = StartFetch([ui EXCEPT !.mounted = TRUE])
  /\ UNCHANGED serverVars

\* the user changes the search text while fetches may be under way
SearchFetch(text) ==
  /\ ui.mounted
  /\ ui.fetchCount < MaxFetches
  /\ text # ui.searchQuery
  /\ ui' = StartFetch([ui EXCEPT !.searchQuery = text])
  /\ UNCHANGED serverVars

\* the user picks the other sort option while fetches may be under way
SortFieldFetch(field) ==
  /\ ui.mounted
  /\ ui.fetchCount < MaxFetches
  /\ field # ui.sortField
  /\ ui' = StartFetch([ui EXCEPT !.sortField = field])
  /\ UNCHANGED serverVars

\* toggleSort(field) while fetches may be under way
SortOrderFetch(field) ==
  LET u == IF ui.sortField = field
             THEN [ui EXCEPT !.sortOrder = IF ui.sortOrder = "asc" THEN "desc" ELSE "asc"]
             ELSE [ui EXCEPT !.sortField = field, !.sortOrder = "asc"]
  IN /\ ui.mounted
     /\ ui.fetchCount < MaxFetches
     /\ ui' = StartFetch(u)
     /\ UNCHANGED serverVars

\* the call with number n is under way, and that call
InFlight(n) == \E f \in ui.fetches : f.n = n
Flight(n) == CHOOSE f \in ui.fetches : f.n = n

\* the server handles one of the requests that have reached it
ServeOverlapping(n) ==
  /\ InFlight(n)
  /\ Flight(n).state = "sent"
  /\ ListGenres(Flight(n).search, Flight(n).sort, Flight(n).order)

\* the server's response leaves for the front-end
ReturnFetch(n) ==
  /\ InFlight(n)
  /\ Flight(n).state = "sent"
  /\ resp.op = "list"
  /\ resp.search = Flight(n).search
  /\ resp.sort = Flight(n).sort
  /\ resp.order = Flight(n).order
  /\ ui' = [ui EXCEPT !.fetches = (ui.fetches \ {Flight(n)}) \cup
               { [Flight(n) EXCEPT !.state = "answered", !.status = resp.status,
                                   !.result = resp.result] }]
  /\ resp' = NoResponse
  /\ before' = genres
  /\ UNCHANGED <<genres, nextId, now, issued, writes, removed, clients>>

\* the response of call n arrives: fetchGenres continues after its await
\* (try or catch, then finally)
ArriveFetch(n) ==
  /\ InFlight(n)
  /\ Flight(n).state = "answered"
  /\ ui' = [ui EXCEPT !.genres = IF Flight(n).status = 200
                                   THEN Flight(n).result ELSE fallback,
                       !.loading = FALSE,
                       !.fetches = ui.fetches \ {Flight(n)}]
  /\ UNCHANGED serverVars

NextOverlapping ==
  \/ MountFetch
  \/ \E text \in SearchTexts : SearchFetch(text)
  \/ \E field \in SortFields : SortFieldFetch(field)
  \/ SortOrderFetch(ui.sortField)
  \/ \E n \in 1..MaxFetches : ServeOverlapping(n)
  \/ \E n \in 1..MaxFetches : ReturnFetch(n)
  \/ \E n \in 1..MaxFetches : ArriveFetch(n)

SpecOverlapping == Init /\ [][NextOverlapping]_vars

\* the service with its list route
NextList ==
  \/ Next
  \/ \E search \in SearchInputs, sort \in SortInputs, order \in OrderInputs :
       ListGenres(search, sort, order)

SpecList == Init /\ [][NextList]_vars

(***************************************************************************)
(* Properties.                                                             *)
(***************************************************************************)
\* vocabulary of the properties
TooShortName(n) == n = Undef \/ Len(Trim(n)) < 2
TooShortDescription(d) == d = Undef \/ Len(Trim(d)) < 5
SameNameIgnoringCase(a, b) == ToLowerCase(a) = ToLowerCase(b)
IdsOf(gs) == {gs[i].id : i \in 1..Len(gs)}
\* the genre the request in resp addresses, as it was before the request
Addressed == before[FindIndex(before, ParseInt(resp.id))]
AddressedExists == ParseInt(resp.id) \in IdsOf(before)
\* the same genre after the request
AddressedNow == genres[FindIndex(before, ParseInt(resp.id))]

\* C1: no two genres of the collection have names that are equal when
\* compared case-insensitively.
C1_UniqueNames ==
  \A i \in 1..Len(genres) : \A j \in 1..Len(genres) :
    i # j => ~SameNameIgnoringCase(genres[i].name, genres[j].name)

\* C2: the ids handed out by create are strictly increasing, none of them
\* is a seed id or the id of a genre held before, and the record a
\* successful create returns carries the id handed out last and is the one
\* appended to the collection.
C2_FreshIds ==
  /\ \A i \in 1..Len(issued) :
       /\ \A s \in SeedIds : issued[i] > s
       /\ \A j \in 1..(i - 1) : issued[j] < issued[i]
  /\ (resp.op = "create" /\ resp.status = 201) =>
       /\ issued # <<>> /\ resp.data.id = issued[Len(issued)]
       /\ resp.data.id \notin IdsOf(before)
       /\ genres = Append(before, resp.data)

\* C2 witness: a create has succeeded after a genre was deleted.
C2_Witness ==
  /\ resp.op = "create" /\ resp.status = 201
  /\ \E s \in SeedIds \cup {issued[1]} : s \notin IdsOf(genres)

\* C3: every genre of the collection has a name of at least 2 characters
\* and a description of at least 5 characters after trimming.
C3_MinLengths ==
  \A i \in 1..Len(genres) :
    /\ Len(Trim(genres[i].name)) >= 2
    /\ Len(Trim(genres[i].description)) >= 5

\* C4 as claimed: a create whose name equals the name of a genre of the
\* collection, ignoring case, is answered 409 whatever else it carries.
C4_AlwaysConflict ==
  (/\ resp.op = "create"
   /\ resp.name # Undef
   /\ \E i \in 1..Len(before) : SameNameIgnoringCase(before[i].name, resp.name))
  => resp.status = 409

\* C4: a create whose name equals the name of a genre of the collection,
\* ignoring case, always fails and adds nothing: with 409 when its name and
\* description pass validation, with 400 when they do not.
C4_DuplicateRejected ==
  (/\ resp.op = "create"
   /\ resp.name # Undef
   /\ \E i \in 1..Len(before) : SameNameIgnoringCase(before[i].name, resp.name))
  => /\ resp.status =
          IF TooShortName(resp.name) \/ TooShortDescription(resp.description)
            THEN 400 ELSE 409
     /\ genres = before

\* C4 witness: a create with a valid description was refused with 409 for
\* a name that differs from the existing one only in case.
C4_Witness ==
  /\ resp.op = "create" /\ resp.status = 409
  /\ \E i \in 1..Len(before) :
       /\ SameNameIgnoringCase(before[i].name, resp.name)
       /\ before[i].name # resp.name

\* C5 as claimed: every create or replace with a too short name or
\* description is answered 400 with one error for each violated rule.
C5_AlwaysValidationError ==
  (/\ resp.op \in {"create", "replace"}
   /\ TooShortName(resp.name) \/ TooShortDescription(resp.description))
  => /\ resp.status = 400
     /\ (TooShortName(resp.name) /\ TooShortDescription(resp.description))
          => resp.errors = <<NameError, DescriptionError>>

\* C5: a create, or a replace addressed to a genre of the collection, with
\* a too short name or description is answered 400, the error list holding
\* exactly the violated rules, both when both are violated.
C5_ValidationError ==
  (/\ resp.op = "create" \/ (resp.op = "replace" /\ AddressedExists)
   /\ TooShortName(resp.name) \/ TooShortDescription(resp.description))
  => /\ resp.status = 400
     /\ resp.errors =
          (IF TooShortName(resp.name) THEN <<NameError>> ELSE <<>>)
          \o (IF TooShortDescription(resp.description)
                THEN <<DescriptionError>> ELSE <<>>)
     /\ genres = before

\* C5 witness: a replace of an existing genre with a one-character name and
\* a four-character description was answered 400 with both errors.
C5_Witness ==
  /\ resp.op = "replace" /\ AddressedExists /\ resp.status = 400
  /\ resp.name # Undef /\ Len(Trim(resp.name)) = 1
  /\ resp.description # Undef /\ Len(Trim(resp.description)) = 4
  /\ Len(resp.errors) = 2

\* C6: a patch that supplies name and/or description and whose combined
\* record (supplied values, stored values for the rest) has a too short
\* name or description is answered 400 and changes nothing.
C6_PatchValidated ==
  (/\ resp.op = "patch" /\ AddressedExists
   /\ resp.name # Undef \/ resp.description # Undef)
  => LET n == IF resp.name # Undef THEN resp.name ELSE Addressed.name
         d == IF resp.description # Undef THEN resp.description
              ELSE Addressed.description
     IN (TooShortName(n) \/ TooShortDescription(d))
          => resp.status = 400 /\ genres = before

\* C7: a successful patch whose body holds only description leaves name,
\* image, id and createdAt of the record as they were and sets updatedAt to
\* the time of the request.
C7_DescriptionOnlyPatch ==
  (/\ resp.op = "patch" /\ resp.status = 200
   /\ resp.name = Undef /\ resp.image = Undef /\ resp.description # Undef)
  => /\ AddressedNow.id = Addressed.id
     /\ AddressedNow.name = Addressed.name
     /\ AddressedNow.image = Addressed.image
     /\ AddressedNow.createdAt = Addressed.createdAt
     /\ AddressedNow.updatedAt = resp.at
     /\ resp.data = AddressedNow

\* C7 witness: such a patch changed the description of a genre created
\* earlier and moved its updatedAt.
C7_Witness ==
  /\ resp.op = "patch" /\ resp.status = 200
  /\ resp.name = Undef /\ resp.image = Undef /\ resp.description # Undef
  /\ AddressedNow.description # Addressed.description
  /\ Addressed.updatedAt # NoTime
  /\ AddressedNow.updatedAt > Addressed.updatedAt

\* a GET answered directly after a successful replace of the same genre
GetAfterReplace ==
  /\ resp.op = "get"
  /\ resp.after.op = "replace" /\ resp.after.status = 200
  /\ ParseInt(resp.id) = ParseInt(resp.after.id)

\* the fields a replace writes, read back by the GET that follows it
ReadsBackWritten ==
  /\ resp.status = 200
  /\ resp.data.name = Trim(resp.after.name)
  /\ resp.data.description = Trim(resp.after.description)
  /\ resp.data.image =
       IF resp.after.image # Undef /\ resp.after.image # <<>>
         THEN resp.after.image ELSE Addressed.image
  /\ resp.data.id = Addressed.id
  /\ resp.data.createdAt = Addressed.createdAt

\* C8 as claimed: the GET after a replace returns the fields just written,
\* id and createdAt as before, and an updatedAt later than the one the
\* record had before the replace.
C8_UpdatedAtAdvanced ==
  GetAfterReplace =>
    /\ ReadsBackWritten
    /\ resp.data.updatedAt > Addressed.updatedAt

\* C8: the GET after a replace returns the fields just written, id and
\* createdAt as before, and as updatedAt the clock reading of the replace,
\* which is not earlier than the updatedAt the record had before.
C8_ReplaceThenGet ==
  GetAfterReplace =>
    /\ ReadsBackWritten
    /\ resp.data.updatedAt = resp.after.at
    /\ resp.data.updatedAt >= Addressed.updatedAt

\* C8 witness: the GET follows a replace that changed name, description and
\* image of a record within the millisecond of its previous update.
C8_Witness ==
  /\ GetAfterReplace /\ resp.status = 200
  /\ resp.data.name # Addressed.name
  /\ resp.data.description # Addressed.description
  /\ resp.data.image # Addressed.image
  /\ resp.data.updatedAt = Addressed.updatedAt

\* C9: a replace is answered 409 only when a genre with another id has the
\* name, ignoring case; a replace of a genre with its own name in any
\* letter case and valid fields succeeds.
C9_ConflictOnlyWithOthers ==
  /\ (resp.op = "replace" /\ resp.status = 409) =>
       \E i \in 1..Len(before) :
         /\ before[i].id # ParseInt(resp.id)
         /\ SameNameIgnoringCase(before[i].name, Trim(resp.name))
  /\ (/\ resp.op = "replace" /\ AddressedExists
      /\ resp.name # Undef
      /\ SameNameIgnoringCase(Addressed.name, resp.name)
      /\ ~TooShortName(resp.name)
      /\ ~TooShortDescription(resp.description))
     => resp.status = 200

\* C9 witness: a genre was replaced under its own name written in another
\* letter case.
C9_Witness ==
  /\ resp.op = "replace" /\ resp.status = 200
  /\ SameNameIgnoringCase(Addressed.name, resp.name)
  /\ Addressed.name # resp.name

\* position k of the ids of a bulk delete names a genre that is in the
\* collection at its turn
BulkHit(k) ==
  /\ ParseInt(resp.ids[k]) \in IdsOf(before)
  /\ \A j \in 1..(k - 1) : ParseInt(resp.ids[j]) # ParseInt(resp.ids[k])

BulkPositions == [k \in 1..Len(resp.ids) |-> k]
BulkHits == SelectSeq(BulkPositions, LAMBDA k : BulkHit(k))
BulkMisses == SelectSeq(BulkPositions, LAMBDA k : ~BulkHit(k))

\* C10: a bulk delete with a non-empty list answers 200; deleted holds, in
\* the order of ids, the genres present at their turn, notFound the other
\* ids in order, deletedCount + |notFound| = |ids|, and the collection is
\* left with the earlier genres whose id is not in ids, unchanged and in
\* their order.
C10_BulkDelete ==
  (resp.op = "bulkDelete" /\ resp.isArray /\ resp.ids # <<>>) =>
    /\ resp.status = 200
    /\ resp.deleted =
         [m \in 1..Len(BulkHits) |->
            before[FindIndex(before, ParseInt(resp.ids[BulkHits[m]]))]]
    /\ resp.notFound = [m \in 1..Len(BulkMisses) |-> resp.ids[BulkMisses[m]]]
    /\ Len(resp.deleted) + Len(resp.notFound) = Len(resp.ids)
    /\ genres =
         SelectSeq(before,
                   LAMBDA g : \A k \in 1..Len(resp.ids) : ParseInt(resp.ids[k]) # g.id)

\* C10 witness: a bulk delete removed a genre and reported the repetition
\* of its id as not found.
C10_Witness ==
  /\ resp.op = "bulkDelete" /\ resp.status = 200
  /\ Len(resp.ids) = 2 /\ resp.ids[1] = resp.ids[2]
  /\ Len(resp.deleted) = 1 /\ Len(resp.notFound) = 1
  /\ Len(genres) = Len(before) - 1

\* C11: a bulk delete whose ids is missing, is not an array or is an empty
\* array answers 400 and removes nothing.
C11_BulkDeleteRefused ==
  (resp.op = "bulkDelete" /\ (~resp.isArray \/ resp.ids = <<>>)) =>
    /\ resp.status = 400
    /\ resp.deleted = <<>>
    /\ genres = before

\* a body whose ids is a non-empty string has been refused after the
\* collection had changed
C11_Witness ==
  /\ resp.op = "bulkDelete"
  /\ ~resp.isArray
  /\ resp.ids # <<>>
  /\ resp.status = 400
  /\ writes > 0

\* C12: once DELETE /api/genres/:id has succeeded on an id, that id is in
\* the collection no more and every later get of it answers 404, whatever
\* requests were made in between.
C12_DeletedStaysGone ==
  /\ \A id \in removed : id \notin IdsOf(genres)
  /\ (resp.op = "get" /\ ParseInt(resp.id) \in removed) => resp.status = 404

\* genre 1 (Action) has been deleted, a genre named action has been created
\* since, and a get of id 1 has answered 404
C12_Witness ==
  /\ resp.op = "get"
  /\ ParseInt(resp.id) = 1
  /\ 1 \in removed
  /\ resp.status = 404
  /\ \E i \in 1..Len(genres) : ToLowerCase(genres[i].name) = <<"a", "c", "t", "i", "o", "n">>

\* C13: every genre of the collection, seed records included, has an
\* updatedAt that is at least its createdAt, and a genre keeps the createdAt
\* it had before the request being answered.
C13_Timestamps ==
  /\ \A i \in 1..Len(genres) :
       /\ genres[i].updatedAt # NoTime
       /\ genres[i].updatedAt >= genres[i].createdAt
  /\ \A i \in 1..Len(genres), j \in 1..Len(before) :
       genres[i].id = before[j].id => genres[i].createdAt = before[j].createdAt

\* text t occurs in s when letter case is ignored
ContainsIgnoringCase(s, t) ==
  \E i \in 1..(Len(s) - Len(t) + 1) :
    \A k \in 1..Len(t) : LowerChar(s[i + k - 1]) = LowerChar(t[k])

\* the genres of the collection the search text of the list in resp selects
SearchHit(g) ==
  \/ ContainsIgnoringCase(g.name, resp.search)
  \/ ContainsIgnoringCase(g.description, resp.search)
Hits == SelectSeq(before, LAMBDA g : SearchHit(g))
FilteredBefore == IF Truthy(resp.search) THEN Hits ELSE before

\* result holds every element of gs exactly once and nothing else
OnceEach(result, gs) ==
  /\ Len(result) = Len(gs)
  /\ \A i \in 1..Len(gs) : Cardinality({j \in 1..Len(result) : result[j] = gs[i]}) = 1

NamesOf(gs) == [i \in 1..Len(gs) |-> gs[i].name]

\* C14: a list with a search text returns exactly the genres whose name or
\* description contains the text ignoring case, each once, in collection
\* order when no sort is requested; on the seed set the search "comedy"
\* returns the genre named Comedy alone.
C14_Search ==
  (resp.op = "list" /\ Truthy(resp.search)) =>
    /\ resp.status = 200 => OnceEach(resp.result, Hits)
    /\ resp.sort = Absent => resp.status = 200 /\ resp.result = Hits
    /\ (before = SeedGenres /\ resp.status = 200
          /\ resp.search = <<"c", "o", "m", "e", "d", "y">>) =>
         NamesOf(resp.result) = << <<"C", "o", "m", "e", "d", "y">> >>

\* an unsorted search in upper case has returned a genre found by its name
\* and one found by its description only, after the collection had changed
C14_Witness ==
  /\ resp.op = "list"
  /\ resp.search = <<"C", "O">>
  /\ resp.sort = Absent
  /\ writes > 0
  /\ \E i, j \in 1..Len(resp.result) :
       /\ ContainsIgnoringCase(resp.result[i].name, resp.search)
       /\ ~ContainsIgnoringCase(resp.result[j].name, resp.search)

\* the names of result, lower-cased, never decrease (never increase when
\* order is desc)
OrderedByName(result, order) ==
  \A i, j \in 1..Len(result) :
    i < j =>
      IF order = "desc"
        THEN ~StringGreater(ToLowerCase(result[j].name), ToLowerCase(result[i].name))
        ELSE ~StringGreater(ToLowerCase(result[i].name), ToLowerCase(result[j].name))

\* C15: a list with sort=name returns the filtered genres ordered by name
\* ignoring case, ascending unless order is desc; on the seed set
\* sort=name, order=desc returns Sci-Fi, Drama, Comedy, Action.
C15_SortByName ==
  (resp.op = "list" /\ resp.sort = "name") =>
    /\ resp.status = 200
    /\ OnceEach(resp.result, FilteredBefore)
    /\ OrderedByName(resp.result, resp.order)
    /\ (before = SeedGenres /\ ~Truthy(resp.search) /\ resp.order = "desc") =>
         [i \in 1..Len(resp.result) |-> resp.result[i].id] = <<4, 3, 2, 1>>

\* the whole collection, with a created genre whose name is in lower case,
\* has been listed by name in descending order
C15_Witness ==
  /\ resp.op = "list"
  /\ resp.sort = "name"
  /\ resp.order = "desc"
  /\ ~Truthy(resp.search)
  /\ Len(resp.result) = 5
  /\ \E i \in 1..Len(resp.result) : resp.result[i].name = <<"a", "b">>

\* C16: a list request, whatever its search, sort and order, leaves the
\* collection (genres, fields, order) and the id counter as they were.
C16_ListChangesNothing ==
  [][resp'.op = "list" => (genres' = genres /\ nextId' = nextId)]_vars

\* a list has answered with the genres in another order than the collection's
C16_Witness ==
  /\ resp.op = "list"
  /\ resp.status = 200
  /\ Len(resp.result) = Len(genres)
  /\ resp.result # genres
  /\ writes > 0

\* C18: a list whose sort names any field, also one that only some records
\* carry, never answers 500 and returns every genre that passes the search
\* filter exactly once.
C18_ListNeverFails ==
  resp.op = "list" =>
    /\ resp.status # 500
    /\ OnceEach(resp.result, FilteredBefore)

\* C19: a create, replace, patch, delete or bulk delete that answers with
\* an error (400, 404, 409) leaves the collection and the id counter as they
\* were; a rejected create consumes no id.
C19_ErrorsChangeNothing ==
  [][(resp'.op \in {"create", "replace", "patch", "delete", "bulkDelete"}
       /\ resp'.status \in {400, 404, 409})
     => (genres' = genres /\ nextId' = nextId)]_vars

\* a create has been refused for its name after another create had been
\* given an id, and the counter still follows that id
C19_Witness ==
  /\ resp.op = "create"
  /\ resp.status = 409
  /\ issued # <<>>
  /\ nextId = issued[Len(issued)] + 1

\* the clients whose create has been answered, and those answered 201
Answered == {c \in Clients : clients[c].state = "answered"}
Created == {c \in Answered : clients[c].status = 201}

\* C17: requests are handled one at a time, so the collection and the
\* answers are those of the requests taken in some order: every create
\* answered 201 has its own genre with its own id, in the order of the ids,
\* and nothing else was added; of the creates whose names are equal ignoring
\* case at most one is answered 201 and the others are answered 409.
C17_Serialized ==
  /\ \A c \in Created :
       \E i \in 1..Len(genres) :
         /\ genres[i].id = clients[c].id
         /\ genres[i].name = Trim(clients[c].name)
         /\ i = Len(SeedGenres) + (clients[c].id - FirstNextId) + 1
  /\ \A c, d \in Created : c # d => clients[c].id # clients[d].id
  /\ Idle => Len(genres) = Len(SeedGenres) + Cardinality(Created)
  /\ \A c, d \in Answered :
       (c # d /\ SameNameIgnoringCase(Trim(clients[c].name), Trim(clients[d].name))) =>
         /\ ~(clients[c].status = 201 /\ clients[d].status = 201)
         /\ clients[c].status = 201 => clients[d].status = 409

\* two creates whose names differ in case and white space only were in
\* flight together; one has been answered 201 and the other 409
C17_Witness ==
  \E c, d \in Answered :
    /\ clients[c].name = <<" ", "a", "b">>
    /\ clients[d].name = <<"A", "B">>
    /\ clients[c].status = 409
    /\ clients[d].status = 201

\* C20: in the front-end every selected id is the id of a genre of the
\* displayed list (filteredGenres), so a bulk delete sends only ids of
\* genres the user can see.
C20_SelectionDisplayed ==
  \A id \in Range(ui.selectedGenres) :
    \E i \in 1..Len(filteredGenres) : filteredGenres[i].id = id

\* C21: once the responses of all the fetchGenres calls that were under
\* way together have arrived, genres holds what the server answers to the
\* current search, sort and order (the response of the last call issued)
\* and loading is false.
C21_LatestFetchShown ==
  (ui.mounted /\ ui.fetches = {}) =>
    /\ ~ui.loading
    /\ ui.genres = ListResult(genres, FetchCall(ui).search, FetchCall(ui).sort,
                              FetchCall(ui).order).arr

====
